---- MODULE Spec2Model ----
(***************************************************************************)
(* Mass-spring simulation step: SimTimeStep of                             *)
(* src/project3_TriangularMeshes/project4.js.                              *)
(*                                                                         *)
(* JavaScript numbers are modelled as exact rationals n/d in lowest terms  *)
(* (d > 0), extended with the three IEEE special values the code can       *)
(* produce by dividing by zero: +Infinity (1/0), -Infinity (-1/0) and NaN  *)
(* (0/0).  Rounding and the sign of zero are not modelled.  A square root  *)
(* is taken only of values whose root is rational; SimTimeStep is entered  *)
(* only in scenes whose spring lengths are rational and whose coordinates  *)
(* have numerators and denominators up to MaxMagnitude.                    *)
(***************************************************************************)
EXTENDS Integers, Sequences, FiniteSets, TLC

VARIABLES positions, velocities, dt, springs, stiffness, damping,
          particleMass, gravity, restitution,
          forces, pc, idx, fault, calls,
          pos0, vel0, posI, velI

args == <<dt, springs, stiffness, damping, particleMass, gravity, restitution>>
hist == <<pos0, vel0, posI, velI>>
vars == <<positions, velocities, args, forces, pc, idx, fault, calls, hist>>

\* Number of SimTimeStep calls in one behaviour.
MaxCalls == 2

\* Largest numerator and denominator of a coordinate at the entry of a call.
MaxMagnitude == 10000

-----------------------------------------------------------------------------
(* JavaScript numbers *)

Abs(a) == IF a < 0 THEN -a ELSE a

Sign(a) == IF a > 0 THEN 1 ELSE IF a < 0 THEN -1 ELSE 0

RECURSIVE GCD(_, _)
GCD(a, b) == IF b = 0 THEN a ELSE GCD(b, a % b)

\* n/d in lowest terms with d > 0; d = 0 gives Infinity, -Infinity or NaN.
Num(n, d) ==
    IF d = 0 THEN [n |-> Sign(n), d |-> 0]
    ELSE LET g == GCD(Abs(n), Abs(d))
         IN  [n |-> (Sign(d) * n) \div g, d |-> Abs(d) \div g]

Zero == [n |-> 0, d |-> 1]
One == [n |-> 1, d |-> 1]
MinusOne == [n |-> -1, d |-> 1]
NaN == [n |-> 0, d |-> 0]

IsNaN(a) == a.d = 0 /\ a.n = 0
IsFinite(a) == a.d > 0

\* a + b
Add(a, b) ==
    IF a.d = 0 /\ b.d = 0
    THEN (IF a.n = b.n THEN a ELSE NaN)
    ELSE IF a.d = 0 THEN a
    ELSE IF b.d = 0 THEN b
    ELSE LET g == GCD(a.d, b.d)
         IN  Num(a.n * (b.d \div g) + b.n * (a.d \div g), (a.d \div g) * b.d)

\* -a
Neg(a) == [n |-> -a.n, d |-> a.d]

\* a - b
Sub(a, b) == Add(a, Neg(b))

\* a * b
Mul(a, b) ==
    IF a.d = 0 \/ b.d = 0
    THEN Num(a.n * b.n, 0)
    ELSE LET g1 == GCD(Abs(a.n), b.d)
             g2 == GCD(Abs(b.n), a.d)
         IN  Num((a.n \div g1) * (b.n \div g2), (a.d \div g2) * (b.d \div g1))

\* a / b
Div(a, b) == Mul(a, Num(Sign(b.n) * b.d, Abs(b.n)))

\* a < b
Lt(a, b) ==
    IF IsNaN(a) \/ IsNaN(b) THEN FALSE
    ELSE IF a.d = 0 /\ b.d = 0 THEN a.n < b.n
    ELSE Add(a, Neg(b)).n < 0

\* a <= b
Le(a, b) == Lt(a, b) \/ (~IsNaN(a) /\ a = b)

RECURSIVE SqrtSearch(_, _, _)
SqrtSearch(n, lo, hi) ==
    IF lo >= hi THEN lo
    ELSE LET mid == (lo + hi + 1) \div 2
         IN  IF mid * mid <= n THEN SqrtSearch(n, mid, hi)
             ELSE SqrtSearch(n, lo, mid - 1)

\* floor of the square root of a natural number
ISqrt(n) == SqrtSearch(n, 0, IF n < 46340 THEN n ELSE 46340)

IsSquare(n) == ISqrt(n) * ISqrt(n) = n

\* the square root of a is a number of the model
HasSqrt(a) == a.d = 0 \/ a.n < 0 \/ (IsSquare(a.n) /\ IsSquare(a.d))

\* Math.sqrt(a)
Sqrt(a) ==
    IF a.d = 0 THEN (IF a.n = 1 THEN a ELSE NaN)
    ELSE IF a.n < 0 THEN NaN
    ELSE Num(ISqrt(a.n), ISqrt(a.d))

-----------------------------------------------------------------------------
(* Vec3 *)

Vec3(x, y, z) == [x |-> x, y |-> y, z |-> z]

Dims == {"x", "y", "z"}

ZeroVec == Vec3(Zero, Zero, Zero)

add(u, v) == Vec3(Add(u.x, v.x), Add(u.y, v.y), Add(u.z, v.z))

sub(u, v) == Vec3(Sub(u.x, v.x), Sub(u.y, v.y), Sub(u.z, v.z))

mul(u, f) == Vec3(Mul(u.x, f), Mul(u.y, f), Mul(u.z, f))

div(u, f) == Vec3(Div(u.x, f), Div(u.y, f), Div(u.z, f))

dot(u, v) == Add(Add(Mul(u.x, v.x), Mul(u.y, v.y)), Mul(u.z, v.z))

len(u) == Sqrt(dot(u, u))

\* the unit vector of u; the zero vector when u has length 0
unit(u) == IF len(u) = Zero THEN ZeroVec ELSE div(u, len(u))

-----------------------------------------------------------------------------
(* Inputs *)

Q(n, d) == Num(n, d)

V(x, y, z) == Vec3(Q(x, 100), Q(y, 100), Q(z, 100))

\* an array as a function on 0 .. length-1
Arr(s) == [k \in 0 .. Len(s) - 1 |-> s[k + 1]]

Scenes ==
    { [p |-> <<V(0, 0, 50)>>,                v |-> <<V(0, 0, 0)>>],
      [p |-> <<V(0, 0, 95)>>,                v |-> <<V(0, 0, 100)>>],
      [p |-> <<V(200, 0, -150)>>,            v |-> <<V(-100, 0, 0)>>],
      [p |-> <<V(0, 0, 0), V(100, 0, 0)>>,   v |-> <<V(0, 0, 0), V(0, 0, 0)>>],
      [p |-> <<V(0, 0, 0), V(0, 0, 0)>>,     v |-> <<V(50, 0, 0), V(0, 0, 0)>>],
      [p |-> <<V(-50, 0, 0), V(50, 0, 0)>>,  v |-> <<V(0, 0, 0), V(100, 0, 50)>>],
      [p |-> <<V(0, 0, 0), V(30, 40, 0)>>,   v |-> <<V(100, 0, 0), V(0, 0, 0)>>],
      [p |-> <<V(-50, 0, 0), V(0, 0, 0), V(50, 0, 0)>>,
       v |-> <<V(0, 0, 0), V(50, 0, 0), V(0, 0, 0)>>] }

Spring(p0, p1, rest) == [p0 |-> p0, p1 |-> p1, rest |-> rest]

SpringLists ==
    { <<>>,
      <<Spring(0, 1, Q(2, 1))>>,
      <<Spring(0, 1, Q(1, 2))>>,
      <<Spring(1, 0, Q(1, 2)), Spring(1, 2, Q(1, 4))>>,
      <<Spring(0, 0, Q(1, 2))>>,
      <<Spring(0, 1, Q(1, 4)), Spring(2, 1, Q(1, 1)), Spring(0, 1, Q(1, 1))>> }

DtValues == {Q(1, 10), Q(1, 2), Q(0, 1), Q(-1, 10)}
StiffnessValues == {Q(0, 1), Q(1, 1)}
DampingValues == {Q(0, 1), Q(1, 1)}
MassValues == {Q(1, 1), Q(2, 1), Q(0, 1), Q(-1, 1)}
GravityValues == {V(0, 0, 0), V(0, 0, -100)}
RestitutionValues == {Q(0, 1), Q(1, 2), Q(1, 1)}

-----------------------------------------------------------------------------
(* SimTimeStep *)

numParticles == Cardinality(DOMAIN positions)

InRange(s) == s.p0 \in DOMAIN positions /\ s.p1 \in DOMAIN positions

\* every coordinate and every spring length of the scene is a number of the
\* model
Exact ==
    /\ \A i \in DOMAIN positions : \A dim \in Dims :
           /\ Abs(positions[i][dim].n) <= MaxMagnitude
           /\ positions[i][dim].d <= MaxMagnitude
           /\ Abs(velocities[i][dim].n) <= MaxMagnitude
           /\ velocities[i][dim].d <= MaxMagnitude
    /\ \A k \in 1 .. Len(springs) :
           InRange(springs[k]) =>
               HasSqrt(LET d == sub(positions[springs[k].p1], positions[springs[k].p0])
                       IN  dot(d, d))

Init ==
    /\ \E sc \in Scenes : positions = Arr(sc.p) /\ velocities = Arr(sc.v)
    /\ dt \in DtValues
    /\ springs \in SpringLists
    /\ stiffness \in StiffnessValues
    /\ damping \in DampingValues
    /\ particleMass \in MassValues
    /\ gravity \in GravityValues
    /\ restitution \in RestitutionValues
    /\ forces = <<>>
    /\ pc = "idle"
    /\ idx = 0
    /\ fault = FALSE
    /\ calls = 0
    /\ pos0 = positions
    /\ vel0 = velocities
    /\ posI = positions
    /\ velI = velocities

\* entry of SimTimeStep and step 1: forces initialised with gravity
Call ==
    /\ pc = "idle"
    /\ calls < MaxCalls
    /\ Exact
    /\ forces' = [i \in DOMAIN positions |-> mul(gravity, particleMass)]
    /\ fault' = FALSE
    /\ pc' = IF springs = <<>> THEN "integrate" ELSE "springs"
    /\ idx' = IF springs = <<>> THEN 0 ELSE 1
    /\ pos0' = positions
    /\ vel0' = velocities
    /\ posI' = positions
    /\ velI' = velocities
    /\ UNCHANGED <<positions, velocities, args, calls>>

\* SpringForce with the Hooke term computed from rest - L
SpringForceRestMinusL(spring, pos, vel) ==
    LET pi == pos[spring.p0]
        pj == pos[spring.p1]
        vi == vel[spring.p0]
        vj == vel[spring.p1]
        d == sub(pj, pi)
        L == len(d)
        dir == unit(d)
        fs == mul(dir, Mul(stiffness, Sub(spring.rest, L)))
        vRel == sub(vj, vi)
        fd == mul(dir, Mul(damping, dot(vRel, dir)))
    IN  add(fs, fd)

\* SpringForce with the x axis as the direction of a spring of length 0
SpringForceAxisFallback(spring, pos, vel) ==
    LET pi == pos[spring.p0]
        pj == pos[spring.p1]
        vi == vel[spring.p0]
        vj == vel[spring.p1]
        d == sub(pj, pi)
        L == len(d)
        dir == IF L = Zero THEN Vec3(One, Zero, Zero) ELSE unit(d)
        fs == mul(dir, Mul(stiffness, Sub(L, spring.rest)))
        vRel == sub(vj, vi)
        fd == mul(dir, Mul(damping, dot(vRel, dir)))
    IN  add(fs, fd)

\* the force f of one spring
SpringForce(spring, pos, vel) ==
    LET pi == pos[spring.p0]
        pj == pos[spring.p1]
        vi == vel[spring.p0]
        vj == vel[spring.p1]
        d == sub(pj, pi)
        L == len(d)
        dir == unit(d)
        fs == mul(dir, Mul(stiffness, Sub(L, spring.rest)))
        vRel == sub(vj, vi)
        fd == mul(dir, Mul(damping, dot(vRel, dir)))
    IN  add(fs, fd)

\* Accumulate with f subtracted from p0 and added to p1
AccumulateReversed(F, spring, f) ==
    LET F1 == [F EXCEPT ![spring.p0] = sub(@, f)]
    IN  [F1 EXCEPT ![spring.p1] = add(@, f)]

\* Accumulate with f added to both endpoints
AccumulateBothInc(F, spring, f) ==
    LET F1 == [F EXCEPT ![spring.p0] = add(@, f)]
    IN  [F1 EXCEPT ![spring.p1] = add(@, f)]

\* forces[i].inc(f); forces[j].dec(f)
Accumulate(F, spring, f) ==
    LET F1 == [F EXCEPT ![spring.p0] = add(@, f)]
    IN  [F1 EXCEPT ![spring.p1] = sub(@, f)]

\* ApplySpring passing over a spring whose index is out of range
ApplySpringSkip ==
    /\ pc = "springs"
    /\ LET spring == springs[idx]
       IN  forces' = IF InRange(spring)
                     THEN Accumulate(forces, spring,
                                     SpringForce(spring, positions, velocities))
                     ELSE forces
    /\ pc' = IF idx < Len(springs) THEN "springs" ELSE "integrate"
    /\ idx' = IF idx < Len(springs) THEN idx + 1 ELSE 0
    /\ UNCHANGED <<fault, calls, positions, velocities, args, hist>>

\* step 2, one iteration of the loop over the springs
ApplySpring ==
    /\ pc = "springs"
    /\ LET spring == springs[idx]
       IN  IF ~InRange(spring)
           THEN /\ fault' = TRUE
                /\ pc' = "idle"
                /\ idx' = 0
                /\ calls' = calls + 1
                /\ UNCHANGED forces
           ELSE /\ forces' = Accumulate(forces, spring,
                                        SpringForce(spring, positions, velocities))
                /\ pc' = IF idx < Len(springs) THEN "springs" ELSE "integrate"
                /\ idx' = IF idx < Len(springs) THEN idx + 1 ELSE 0
                /\ UNCHANGED <<fault, calls>>
    /\ UNCHANGED <<positions, velocities, args, hist>>

\* Euler with the position advanced by the velocity before its update
EulerExplicit(p, v, F) ==
    LET acc == div(F, particleMass)
    IN  <<add(p, mul(v, dt)), add(v, mul(acc, dt))>>

\* the body of the loop of step 3: <<position, velocity>> of a particle with
\* position p, velocity v and force F
Euler(p, v, F) ==
    LET acc == div(F, particleMass)
        vNew == add(v, mul(acc, dt))
    IN  <<add(p, mul(vNew, dt)), vNew>>

\* CollideDim without the clamp at +1
CollideDimNoUpperClamp(p, v) ==
    LET p1 == IF Lt(p, MinusOne) THEN MinusOne ELSE p
        v1 == IF Lt(p, MinusOne) /\ Lt(v, Zero) THEN Mul(Neg(v), restitution) ELSE v
        v2 == IF Lt(One, p1) /\ Lt(Zero, v1) THEN Mul(Neg(v1), restitution) ELSE v1
    IN  <<p1, v2>>

\* CollideDim reflecting the velocity whatever its sign
CollideDimAlwaysReflect(p, v) ==
    LET p1 == IF Lt(p, MinusOne) THEN MinusOne ELSE p
        v1 == IF Lt(p, MinusOne) THEN Mul(Neg(v), restitution) ELSE v
        p2 == IF Lt(One, p1) THEN One ELSE p1
        v2 == IF Lt(One, p1) THEN Mul(Neg(v1), restitution) ELSE v1
    IN  <<p2, v2>>

\* CollideDim reflecting without the restitution factor
CollideDimNoRestitution(p, v) ==
    LET p1 == IF Lt(p, MinusOne) THEN MinusOne ELSE p
        v1 == IF Lt(p, MinusOne) /\ Lt(v, Zero) THEN Neg(v) ELSE v
        p2 == IF Lt(One, p1) THEN One ELSE p1
        v2 == IF Lt(One, p1) /\ Lt(Zero, v1) THEN Neg(v1) ELSE v1
    IN  <<p2, v2>>

\* the two tests of step 4 on one axis: <<position, velocity>> after them
CollideDim(p, v) ==
    LET p1 == IF Lt(p, MinusOne) THEN MinusOne ELSE p
        v1 == IF Lt(p, MinusOne) /\ Lt(v, Zero) THEN Mul(Neg(v), restitution) ELSE v
        p2 == IF Lt(One, p1) THEN One ELSE p1
        v2 == IF Lt(One, p1) /\ Lt(Zero, v1) THEN Mul(Neg(v1), restitution) ELSE v1
    IN  <<p2, v2>>

\* Integrate with the collision tests of the particle run in the same iteration
IntegrateFused ==
    /\ pc = "integrate"
    /\ LET i == idx
           pv == Euler(positions[i], velocities[i], forces[i])
       IN  /\ velocities' = [velocities EXCEPT ![i] =
                  [dim \in Dims |-> CollideDim(pv[1][dim], pv[2][dim])[2]]]
           /\ positions' = [positions EXCEPT ![i] =
                  [dim \in Dims |-> CollideDim(pv[1][dim], pv[2][dim])[1]]]
           /\ velI' = [velI EXCEPT ![i] = pv[2]]
           /\ posI' = [posI EXCEPT ![i] = pv[1]]
    /\ pc' = IF idx + 1 < numParticles THEN "integrate" ELSE "collide"
    /\ idx' = IF idx + 1 < numParticles THEN idx + 1 ELSE 0
    /\ UNCHANGED <<args, forces, fault, calls, pos0, vel0>>

\* step 3, one iteration: semi-implicit Euler for particle idx
Integrate ==
    /\ pc = "integrate"
    /\ LET i == idx
           pv == Euler(positions[i], velocities[i], forces[i])
       IN  /\ velocities' = [velocities EXCEPT ![i] = pv[2]]
           /\ positions' = [positions EXCEPT ![i] = pv[1]]
           /\ velI' = [velI EXCEPT ![i] = pv[2]]
           /\ posI' = [posI EXCEPT ![i] = pv[1]]
    /\ pc' = IF idx + 1 < numParticles THEN "integrate" ELSE "collide"
    /\ idx' = IF idx + 1 < numParticles THEN idx + 1 ELSE 0
    /\ UNCHANGED <<args, forces, fault, calls, pos0, vel0>>

\* step 4, one iteration of the outer loop: the three axes of particle idx
Collide ==
    /\ pc = "collide"
    /\ LET i == idx
       IN  /\ positions' = [positions EXCEPT ![i] =
                  [dim \in Dims |-> CollideDim(positions[i][dim], velocities[i][dim])[1]]]
           /\ velocities' = [velocities EXCEPT ![i] =
                  [dim \in Dims |-> CollideDim(positions[i][dim], velocities[i][dim])[2]]]
    /\ pc' = IF idx + 1 < numParticles THEN "collide" ELSE "idle"
    /\ idx' = IF idx + 1 < numParticles THEN idx + 1 ELSE 0
    /\ calls' = IF idx + 1 < numParticles THEN calls ELSE calls + 1
    /\ UNCHANGED <<args, forces, fault, hist>>

Next == Call \/ ApplySpring \/ Integrate \/ Collide

Spec == Init /\ [][Next]_vars

-----------------------------------------------------------------------------
(* Step 2 with the accumulator updates of the springs taken in any order:   *)
(* while pc = "springs", idx is the set of the updates <<k, side>> still to *)
(* be made, side 0 for forces[p0].inc(f) and side 1 for forces[p1].dec(f)   *)
(* of spring k.                                                             *)

\* entry of SimTimeStep and step 1, every update of step 2 pending
CallAnyOrder ==
    /\ pc = "idle"
    /\ calls < MaxCalls
    /\ Exact
    /\ forces' = [i \in DOMAIN positions |-> mul(gravity, particleMass)]
    /\ fault' = FALSE
    /\ pc' = IF springs = <<>> THEN "integrate" ELSE "springs"
    /\ idx' = IF springs = <<>> THEN 0 ELSE (1 .. Len(springs)) \X {0, 1}
    /\ pos0' = positions
    /\ vel0' = velocities
    /\ posI' = positions
    /\ velI' = velocities
    /\ UNCHANGED <<positions, velocities, args, calls>>

\* forces[i] = f in place of forces[i].inc(f)
AccumulateP0Assign(F, spring, f) == [F EXCEPT ![spring.p0] = f]

\* forces[i].inc(f)
AccumulateP0(F, spring, f) == [F EXCEPT ![spring.p0] = add(@, f)]

\* forces[j].dec(f)
AccumulateP1(F, spring, f) == [F EXCEPT ![spring.p1] = sub(@, f)]

\* step 2, one accumulator update of one spring, any pending one
ApplyUpdate ==
    /\ pc = "springs"
    /\ \E u \in idx :
           LET spring == springs[u[1]]
           IN  IF ~InRange(spring)
               THEN /\ fault' = TRUE
                    /\ pc' = "idle"
                    /\ idx' = 0
                    /\ calls' = calls + 1
                    /\ UNCHANGED forces
               ELSE /\ forces' =
                           IF u[2] = 0
                           THEN AccumulateP0(forces, spring,
                                    SpringForce(spring, positions, velocities))
                           ELSE AccumulateP1(forces, spring,
                                    SpringForce(spring, positions, velocities))
                    /\ pc' = IF idx = {u} THEN "integrate" ELSE "springs"
                    /\ idx' = IF idx = {u} THEN 0 ELSE idx \ {u}
                    /\ UNCHANGED <<fault, calls>>
    /\ UNCHANGED <<positions, velocities, args, hist>>

NextAnyOrder == CallAnyOrder \/ ApplyUpdate \/ Integrate \/ Collide

SpecAnyOrder == Init /\ [][NextAnyOrder]_vars

-----------------------------------------------------------------------------
(* The step as a function of the state at its entry (pos0, vel0) *)

\* forces[i] after gravity and the first k springs of the list ss
RECURSIVE NetForce(_, _, _)
NetForce(ss, k, i) ==
    IF k = 0 THEN mul(gravity, particleMass)
    ELSE LET f == SpringForce(ss[k], pos0, vel0)
             a == NetForce(ss, k - 1, i)
             b == IF ss[k].p0 = i THEN add(a, f) ELSE a
         IN  IF ss[k].p1 = i THEN sub(b, f) ELSE b

\* velocities[i] after step 3
VelAfter(ss, i) == add(vel0[i], mul(div(NetForce(ss, Len(ss), i), particleMass), dt))

\* positions[i] after step 3
PosAfter(ss, i) == add(pos0[i], mul(VelAfter(ss, i), dt))

\* positions[i] after step 4
PosFinal(ss, i) ==
    [dim \in Dims |-> CollideDim(PosAfter(ss, i)[dim], VelAfter(ss, i)[dim])[1]]

\* velocities[i] after step 4
VelFinal(ss, i) ==
    [dim \in Dims |-> CollideDim(PosAfter(ss, i)[dim], VelAfter(ss, i)[dim])[2]]

-----------------------------------------------------------------------------
(* States of a call *)

Particles == DOMAIN positions

\* a call has returned normally
Returned == pc = "idle" /\ calls > 0 /\ ~fault

\* step 2 is complete and step 3 has not begun
Accumulated == pc = "integrate" /\ idx = 0

\* step 3 is complete and step 4 has not begun
Integrated == pc = "collide" /\ idx = 0

InBox(a) == Le(MinusOne, a) /\ Le(a, One)

AbsN(a) == IF a.n < 0 THEN Neg(a) ELSE a

TypeOK == pc \in {"idle", "springs", "integrate", "collide"}

-----------------------------------------------------------------------------
(* C1 *)

\* C1 as stated: after SimTimeStep returns, every coordinate of every
\* particle position lies in [-1, 1], whatever the starting state, dt,
\* gravity, stiffness, damping, mass and restitution.
C1_AnyMassInBox ==
    Returned => \A i \in Particles : \A dim \in Dims : InBox(positions[i][dim])

\* C1 amended: after SimTimeStep returns with a nonzero particleMass, every
\* coordinate of every particle position lies in [-1, 1], also when a
\* particle started outside the box and for any dt, gravity, stiffness,
\* damping and restitution.
C1_InBox ==
    (Returned /\ particleMass # Zero) =>
        \A i \in Particles : \A dim \in Dims : InBox(positions[i][dim])

\* a call returned with every particle in the box although one started outside
C1_Witness ==
    /\ Returned
    /\ particleMass # Zero
    /\ \E i \in Particles : \E dim \in Dims : ~InBox(pos0[i][dim])
    /\ \E i \in Particles : \E dim \in Dims :
           /\ Lt(One, posI[i][dim])
           /\ positions[i][dim] = One

-----------------------------------------------------------------------------
(* C2 *)

\* C2: the integrator updates each velocity first, by force / particleMass * dt,
\* and then the position with the updated velocity; the free particle at
\* z = 0.5 at rest under gravity (0,0,-1), mass 1, dt = 0.1 gets velocity.z = -0.1
\* and position.z = 0.49.
C2_Scenario ==
    /\ pos0 = Arr(<<V(0, 0, 50)>>)
    /\ vel0 = Arr(<<V(0, 0, 0)>>)
    /\ springs = <<>>
    /\ gravity = V(0, 0, -100)
    /\ particleMass = One
    /\ dt = Q(1, 10)

C2_SemiImplicit ==
    /\ Integrated =>
           \A i \in Particles :
               /\ velocities[i] = add(vel0[i], mul(div(forces[i], particleMass), dt))
               /\ positions[i] = add(pos0[i], mul(velocities[i], dt))
    /\ ((Integrated \/ Returned) /\ C2_Scenario) =>
           /\ velocities[0].z = Q(-1, 10)
           /\ positions[0].z = Q(49, 100)

C2_Witness ==
    /\ Returned
    /\ C2_Scenario
    /\ velocities[0].z = Q(-1, 10)
    /\ positions[0].z = Q(49, 100)

-----------------------------------------------------------------------------
(* C3 *)

\* forces[i] after gravity and the first k springs, each spring's f being
\* added to its p1 and subtracted from its p0
RECURSIVE C3_ForceP1Plus(_, _)
C3_ForceP1Plus(k, i) ==
    IF k = 0 THEN mul(gravity, particleMass)
    ELSE LET f == SpringForce(springs[k], pos0, vel0)
             a == C3_ForceP1Plus(k - 1, i)
             b == IF springs[k].p1 = i THEN add(a, f) ELSE a
         IN  IF springs[k].p0 = i THEN sub(b, f) ELSE b

\* C3 as stated: each spring's f = fs + fd is added to the accumulator of p1
\* and subtracted from the accumulator of p0.
C3_AddedToP1 ==
    Accumulated => \A i \in Particles : forces[i] = C3_ForceP1Plus(Len(springs), i)

\* C3 amended: each spring's f = fs + fd, with dir the unit vector from p0 to
\* p1, is added to the accumulator of p0 and subtracted from the accumulator
\* of p1.
C3_AddedToP0 ==
    Accumulated => \A i \in Particles : forces[i] = NetForce(springs, Len(springs), i)

\* the spring loop has run over a spring with a nonzero force
C3_Witness ==
    /\ Accumulated
    /\ \E k \in 1 .. Len(springs) :
           /\ SpringForce(springs[k], pos0, vel0) # ZeroVec
           /\ forces[springs[k].p0] =
                  add(mul(gravity, particleMass), SpringForce(springs[k], pos0, vel0))

-----------------------------------------------------------------------------
(* C4 *)

\* one spring between two distinct particles, no damping, no gravity,
\* positive stiffness, mass and dt
C4_Setting ==
    /\ damping = Zero
    /\ gravity = ZeroVec
    /\ Lt(Zero, stiffness)
    /\ Lt(Zero, particleMass)
    /\ Lt(Zero, dt)
    /\ Len(springs) = 1
    /\ InRange(springs[1])
    /\ springs[1].p0 # springs[1].p1

\* displacement from p0 to p1 at the entry of the call
C4_d == sub(pos0[springs[1].p1], pos0[springs[1].p0])

\* change of the velocity of p1 relative to p0 by the integration, along d:
\* negative when the endpoints are accelerated toward each other
C4_Closing ==
    dot(sub(sub(velI[springs[1].p1], vel0[springs[1].p1]),
            sub(velI[springs[1].p0], vel0[springs[1].p0])), C4_d)

C4_Scenario ==
    /\ pos0 = Arr(<<V(0, 0, 0), V(100, 0, 0)>>)
    /\ vel0 = Arr(<<V(0, 0, 0), V(0, 0, 0)>>)
    /\ springs = <<Spring(0, 1, Q(2, 1))>>
    /\ stiffness = One
    /\ particleMass = One
    /\ damping = Zero
    /\ gravity = ZeroVec
    /\ Lt(Zero, dt)

-----------------------------------------------------------------------------
(* C5 *)

\* sum of the vectors F[0], ..., F[n-1]
RECURSIVE SumVec(_, _)
SumVec(F, n) == IF n = 0 THEN ZeroVec ELSE add(SumVec(F, n - 1), F[n - 1])

\* no coordinate left the box in the integration
NoContact == \A i \in Particles : \A dim \in Dims : InBox(posI[i][dim])

\* the positions and velocities at the entry of the call are finite numbers
FiniteEntry ==
    \A i \in Particles : \A dim \in Dims :
        IsFinite(pos0[i][dim]) /\ IsFinite(vel0[i][dim])

\* C5: from finite positions and velocities, each spring adds to one endpoint
\* the negation of what it adds to the other, so after any number of springs
\* the accumulators sum to the gravity terms alone; and when no particle
\* touches the boundary, the total momentum particleMass * (sum of velocities)
\* changes over the step by numParticles * particleMass * gravity * dt
\* (particleMass nonzero), which is zero when gravity is zero.
C5_Momentum ==
    /\ ((pc = "springs" \/ Accumulated) /\ FiniteEntry) =>
           SumVec(forces, numParticles) =
               mul(mul(gravity, particleMass), Q(numParticles, 1))
    /\ (Returned /\ NoContact /\ FiniteEntry /\ particleMass # Zero /\ gravity = ZeroVec) =>
           SumVec(velocities, numParticles) = SumVec(vel0, numParticles)
    /\ (Returned /\ NoContact /\ FiniteEntry /\ particleMass # Zero) =>
           mul(sub(SumVec(velocities, numParticles), SumVec(vel0, numParticles)),
               particleMass) =
               mul(gravity, Mul(Mul(Q(numParticles, 1), particleMass), dt))

C5_Witness ==
    /\ Returned
    /\ NoContact
    /\ FiniteEntry
    /\ particleMass # Zero
    /\ gravity # ZeroVec
    /\ dt # Zero
    /\ \E k \in 1 .. Len(springs) : SpringForce(springs[k], pos0, vel0) # ZeroVec
    /\ velocities # vel0

-----------------------------------------------------------------------------
(* C6 *)

C6_Scenario ==
    /\ pos0 = Arr(<<V(0, 0, 95)>>)
    /\ vel0 = Arr(<<V(0, 0, 100)>>)
    /\ springs = <<>>
    /\ gravity = ZeroVec
    /\ dt = Q(1, 10)
    /\ particleMass # Zero

\* C6: per particle and axis, an integrated coordinate below -1 becomes -1 and
\* the velocity becomes -velocity * restitution only if it was negative; a
\* coordinate above +1 becomes +1 and the velocity becomes
\* -velocity * restitution only if it was positive; a coordinate in [-1, 1]
\* leaves position and velocity as integrated.  From position.z = 0.95,
\* velocity.z = 1, gravity 0, dt = 0.1: position.z = 1 and
\* velocity.z = -restitution.
C6_CollisionRule ==
    /\ Returned =>
           \A i \in Particles : \A dim \in Dims :
               LET p == posI[i][dim]
                   v == velI[i][dim]
               IN  /\ Lt(p, MinusOne) =>
                          /\ positions[i][dim] = MinusOne
                          /\ velocities[i][dim] =
                                 IF Lt(v, Zero) THEN Mul(Neg(v), restitution) ELSE v
                   /\ Lt(One, p) =>
                          /\ positions[i][dim] = One
                          /\ velocities[i][dim] =
                                 IF Lt(Zero, v) THEN Mul(Neg(v), restitution) ELSE v
                   /\ InBox(p) =>
                          /\ positions[i][dim] = p
                          /\ velocities[i][dim] = v
    /\ (Returned /\ C6_Scenario) =>
           /\ positions[0].z = One
           /\ velocities[0].z = Neg(restitution)

C6_Witness ==
    /\ Returned
    /\ C6_Scenario
    /\ posI[0].z = Q(105, 100)
    /\ positions[0].z = One
    /\ velocities[0].z = Neg(restitution)

-----------------------------------------------------------------------------
(* C7 *)

C7_Outward(i, dim) ==
    /\ IsFinite(velI[i][dim])
    /\ \/ Lt(posI[i][dim], MinusOne) /\ Lt(velI[i][dim], Zero)
       \/ Lt(One, posI[i][dim]) /\ Lt(Zero, velI[i][dim])

-----------------------------------------------------------------------------
(* C8 *)

\* the endpoints of the spring have identical positions at the entry of the call
C8_Coincident(spring) == InRange(spring) /\ pos0[spring.p0] = pos0[spring.p1]

\* the first k springs of ss without those of length 0
RECURSIVE C8_Without(_, _)
C8_Without(ss, k) ==
    IF k = 0 THEN <<>>
    ELSE IF C8_Coincident(ss[k]) THEN C8_Without(ss, k - 1)
    ELSE Append(C8_Without(ss, k - 1), ss[k])

-----------------------------------------------------------------------------
(* C9 *)

\* negative particleMass, dt <= 0, or a spring index out of range
Malformed ==
    \/ Lt(particleMass, Zero)
    \/ Le(dt, Zero)
    \/ \E k \in 1 .. Len(springs) : ~InRange(springs[k])

\* C9 as stated: called with malformed input, SimTimeStep signals a fault at
\* its entry and leaves every position and velocity unchanged.
C9_FailFast ==
    (pc = "idle" /\ calls > 0 /\ Malformed) =>
        /\ fault
        /\ positions = pos0
        /\ velocities = vel0

\* C9 amended: SimTimeStep does not validate its input.  With a negative
\* particleMass or dt <= 0 and every spring index in range it signals no fault
\* and stores the result of the same force, integration and collision
\* formulas.  With a spring whose p0 or p1 is out of range it faults in the
\* spring loop, after the forces of the springs before it were accumulated,
\* and leaves every position and velocity unchanged.
C9_NoValidation ==
    /\ (pc = "idle" /\ calls > 0) =>
           /\ fault <=> \E k \in 1 .. Len(springs) : ~InRange(springs[k])
           /\ fault => (positions = pos0 /\ velocities = vel0)
    /\ Returned =>
           \A i \in Particles :
               /\ positions[i] = PosFinal(springs, i)
               /\ velocities[i] = VelFinal(springs, i)

\* a call with negative mass and negative dt returned without a fault and
\* moved a particle
C9_Witness ==
    /\ Returned
    /\ Lt(particleMass, Zero)
    /\ Lt(dt, Zero)
    /\ positions # pos0
    /\ velocities # vel0

-----------------------------------------------------------------------------
(* C10 *)

\* C10: the phases run in the order accumulate, integrate, resolve.  While
\* forces are accumulated no position or velocity has changed since the entry
\* of the call; during integration the forces are those computed from the
\* entry state, the particles already visited hold their integrated,
\* unclamped state and the others their entry state; during collision
\* handling the particles not yet visited hold their integrated state and the
\* visited ones the result of the collision tests on it.
C10_PhaseOrder ==
    /\ (pc = "springs" \/ Accumulated) =>
           (positions = pos0 /\ velocities = vel0)
    /\ pc = "integrate" =>
           \A i \in Particles :
               /\ forces[i] = NetForce(springs, Len(springs), i)
               /\ positions[i] = IF i < idx THEN PosAfter(springs, i) ELSE pos0[i]
               /\ velocities[i] = IF i < idx THEN VelAfter(springs, i) ELSE vel0[i]
    /\ pc = "collide" =>
           \A i \in Particles :
               /\ positions[i] =
                      IF i < idx THEN PosFinal(springs, i) ELSE PosAfter(springs, i)
               /\ velocities[i] =
                      IF i < idx THEN VelFinal(springs, i) ELSE VelAfter(springs, i)

\* the collision loop has handled particle 0 and not yet particle 1, which the
\* integration moved out of the box under a spring force
C10_Witness ==
    /\ pc = "collide"
    /\ idx = 1
    /\ FiniteEntry
    /\ particleMass # Zero
    /\ \E k \in 1 .. Len(springs) : SpringForce(springs[k], pos0, vel0) # ZeroVec
    /\ \E dim \in Dims : ~InBox(positions[1][dim])
    /\ positions[0] # pos0[0]

-----------------------------------------------------------------------------
(* C11 *)

\* the orders in which a list of n springs can be written
C11_Orders(n) ==
    {p \in [1 .. n -> 1 .. n] : \A a, b \in 1 .. n : p[a] = p[b] => a = b}

\* the spring list in the order p
C11_Permuted(p) == [k \in 1 .. Len(springs) |-> springs[p[k]]]

\* C11: the result of SimTimeStep does not depend on the order of the springs
\* nor on the order of the accumulator updates: whatever order the updates
\* were made in, the accumulated forces are those of the spring loop over
\* every permutation of the list, and so are the resulting positions and
\* velocities; a fault is raised in every order or in none.
C11_OrderIndependent ==
    /\ (Accumulated \/ Returned) =>
           \A p \in C11_Orders(Len(springs)) : \A i \in Particles :
               LET F == NetForce(C11_Permuted(p), Len(springs), i)
                   pv == Euler(pos0[i], vel0[i], F)
               IN  /\ forces[i] = F
                   /\ Returned =>
                          /\ positions[i] =
                                 [dim \in Dims |-> CollideDim(pv[1][dim], pv[2][dim])[1]]
                          /\ velocities[i] =
                                 [dim \in Dims |-> CollideDim(pv[1][dim], pv[2][dim])[2]]
    /\ (pc = "idle" /\ calls > 0) =>
           (fault <=> \E k \in 1 .. Len(springs) : ~InRange(springs[k]))

\* the dec of the third spring has been made while the inc of the first is
\* still pending, the three springs having different forces
C11_Witness ==
    /\ pc = "springs"
    /\ Len(springs) = 3
    /\ \A k \in 1 .. 3 : InRange(springs[k])
    /\ <<1, 0>> \in idx
    /\ <<3, 1>> \notin idx
    /\ <<3, 0>> \in idx
    /\ \A a, b \in 1 .. 3 :
           a # b => SpringForce(springs[a], pos0, vel0) # SpringForce(springs[b], pos0, vel0)
    /\ forces[springs[3].p1] =
           sub(mul(gravity, particleMass), SpringForce(springs[3], pos0, vel0))
====
